---- MODULE Spec2Model ----
(***************************************************************************)
(* SPixLabs marketing backend (main.py): lead capture, newsletter          *)
(* subscription, the scripted /api/ask assistant and the /test probe, over *)
(* a document store.                                                       *)
(*                                                                         *)
(* A text is a sequence of one-character strings.  The four fixed replies  *)
(* and the status strings, which the code never inspects, are texts of one *)
(* opaque chunk.  The store is one sequence of documents in insertion      *)
(* order; a document's collection is its kind.                             *)
(***************************************************************************)
EXTENDS Integers, Sequences, FiniteSets, TLC

VARIABLES
    db,        \* the imported store handle: "None" or "Up" (main.py line 7)
    store,     \* every stored document, in insertion order
    inflight,  \* per worker thread: the /api/ask request between its two inserts
    last,      \* the response of the request that completed last
    nreq,      \* requests accepted so far
    mixed,     \* history: sessions whose asks overlapped or lost their reply
    msg,       \* SpecReply: the message text given to the reply heuristic
    reply      \* SpecReply: the reply computed for msg

vars == <<db, store, inflight, last, nreq, mixed, msg, reply>>

(* ------------------------------ bounds -------------------------------- *)

MaxRequests == 3
MaxThreads == 2
MaxPrior == 51
MaxTokens == 2

(* --------------------------- program constants ------------------------ *)

DefaultLimit == 50
MaxCollectionsShown == 10
ErrTextShown == 50

(* ------------------------------- texts -------------------------------- *)

None == <<"<None>">>

Min(a, b) == IF a < b THEN a ELSE b

\* s[:n]
Take(s, n) == SubSeq(s, 1, Min(n, Len(s)))

LowerChar(c) ==
    CASE c = "A" -> "a" [] c = "B" -> "b" [] c = "C" -> "c" [] c = "D" -> "d"
      [] c = "E" -> "e" [] c = "F" -> "f" [] c = "G" -> "g" [] c = "H" -> "h"
      [] c = "I" -> "i" [] c = "J" -> "j" [] c = "K" -> "k" [] c = "L" -> "l"
      [] c = "M" -> "m" [] c = "N" -> "n" [] c = "O" -> "o" [] c = "P" -> "p"
      [] c = "Q" -> "q" [] c = "R" -> "r" [] c = "S" -> "s" [] c = "T" -> "t"
      [] c = "U" -> "u" [] c = "V" -> "v" [] c = "W" -> "w" [] c = "X" -> "x"
      [] c = "Y" -> "y" [] c = "Z" -> "z" [] OTHER -> c

\* str.lower()
Lower(s) == [i \in 1..Len(s) |-> LowerChar(s[i])]

\* k in text
Contains(k, text) ==
    \E i \in 1..(Len(text) - Len(k) + 1) : SubSeq(text, i, i + Len(k) - 1) = k

\* any(k in text for k in ks)
AnyIn(ks, text) == \E j \in 1..Len(ks) : Contains(ks[j], text)

PriceKeywords ==
    << <<"p","r","i","c","e">>, <<"p","r","i","c","i","n","g">>, <<"c","o","s","t">> >>

ServiceKeywords ==
    << <<"s","e","r","v","i","c","e">>, <<"o","f","f","e","r">>,
       <<"s","o","l","u","t","i","o","n","s">> >>

GreetingKeywords ==
    << <<"h","e","l","l","o">>, <<"h","i">>, <<"h","e","y">> >>

PricingAnswer ==
    <<"Our pricing is tailored to your goals and channels. Share your monthly ad spend and targets and we'll propose tiers within minutes.">>

ServicesAnswer ==
    <<"We offer AI marketing automation, content intelligence, predictive ad optimization, analytics, and creative strategy.">>

GreetingAnswer == <<"Hi! I'm SPix. How can I help you grow with AI today?">>

DefaultAnswer ==
    <<"Great question. A strategist will review and get back shortly. Meanwhile, tell me your goals, budget, and timeframe.">>

AnswerNoLower(message) ==
    LET text == message IN
    IF AnyIn(PriceKeywords, text) THEN PricingAnswer
    ELSE IF AnyIn(ServiceKeywords, text) THEN ServicesAnswer
    ELSE IF AnyIn(GreetingKeywords, text) THEN GreetingAnswer
    ELSE DefaultAnswer

\* the naive heuristic response of ask_spix
Answer(message) ==
    LET text == Lower(message) IN
    IF AnyIn(PriceKeywords, text) THEN PricingAnswer
    ELSE IF AnyIn(ServiceKeywords, text) THEN ServicesAnswer
    ELSE IF AnyIn(GreetingKeywords, text) THEN GreetingAnswer
    ELSE DefaultAnswer

(* ------------------------------ schemas ------------------------------- *)

Count(s, c) == Cardinality({i \in 1..Len(s) : s[i] = c})

\* a valid email format: one "@", a non-empty local part, a dotted domain
EmailValid(e) ==
    /\ e # None
    /\ Count(e, "@") = 1
    /\ \E i \in 2..(Len(e) - 3) :
          /\ e[i] = "@"
          /\ \E j \in (i + 2)..(Len(e) - 1) : e[j] = "."

\* Lead: name required and non-empty, email required and valid, message optional
LeadValid(p) == p.name # None /\ p.name # <<>> /\ EmailValid(p.email)

\* Subscriber: email required and valid
SubscriberValid(p) == EmailValid(p.email)

\* AskPayload: session_id: str, message: str
AskPayloadValid(p) == p.session_id # None /\ p.message # None

ChatMessage(session_id, role, content) ==
    [session_id |-> session_id, role |-> role, content |-> content]

\* ChatMessage: session_id required, role one of user/assistant, content required
ChatMessageValid(m) ==
    m.session_id # None /\ m.role \in {"user", "assistant"} /\ m.content # None

\* limit: Optional[int] = 50
LimitValid(q) == q.given => q.isInt

LimitValue(q) == IF q.given THEN q.n ELSE DefaultLimit

(* -------------------------- persistence adapter ----------------------- *)

StoreUnavailable == <<"StoreUnavailable">>
StoreWriteError == <<"StoreWriteError">>
StoreReadError == <<"StoreReadError">>
ValidationError == <<"ValidationError">>

HexChars == <<"0","1","2","3","4","5","6","7","8","9","a","b","c","d","e","f">>

\* str(ObjectId): the identifier as a plain string of hex digits
StrOid(o) == << HexChars[((o.oid \div 16) % 16) + 1], HexChars[(o.oid % 16) + 1] >>

\* the store assigns each inserted document a fresh identifier
NewId(st) == [oid |-> Len(st) + 1]

\* create_document(kind, record) -> identifier, or an error that is raised
CreateDocument(kind, record, st, out) ==
    IF db = "None" THEN [ok |-> FALSE, err |-> StoreUnavailable, store |-> st, id |-> <<>>]
    ELSE IF out = "fail" THEN [ok |-> FALSE, err |-> StoreWriteError, store |-> st, id |-> <<>>]
    ELSE [ok |-> TRUE, err |-> <<>>, id |-> StrOid(NewId(st)),
          store |-> Append(st, [kind |-> kind, _id |-> NewId(st), doc |-> record])]

OfKind(kind, st) == SelectSeq(st, LAMBDA d : d.kind = kind)

Reverse(s) == [i \in 1..Len(s) |-> s[Len(s) + 1 - i]]

\* get_documents(kind, limit): up to limit documents of the kind, in the store's
\* default order or most recently inserted first
GetDocuments(kind, limit, st, out, order) ==
    IF db = "None" THEN [ok |-> FALSE, err |-> StoreUnavailable, docs |-> <<>>]
    ELSE IF out = "fail" THEN [ok |-> FALSE, err |-> StoreReadError, docs |-> <<>>]
    ELSE LET all == OfKind(kind, st)
             n == Min(limit, Len(all))
         IN [ok |-> TRUE, err |-> <<>>,
             docs |-> IF order = "natural" THEN SubSeq(all, 1, n)
                      ELSE SubSeq(Reverse(all), 1, n)]

\* db.list_collection_names(): a collection exists once a document is in it
ListCollectionNames(st) ==
    SelectSeq(<<"lead", "subscriber", "chatmessage">>,
              LAMBDA k : \E i \in 1..Len(st) : st[i].kind = k)

(* ------------------------------- inputs ------------------------------- *)

Mail == <<"a","@","b",".","c">>
OldMail == <<"o","@","b",".","c">>

OldLead == [name |-> <<"o">>, email |-> OldMail, message |-> None]

LeadPayloads ==
    { [name |-> <<"a">>, email |-> Mail, message |-> None],
      [name |-> <<"b">>, email |-> Mail, message |-> <<"h","i">>],
      [name |-> None, email |-> Mail, message |-> None],
      [name |-> <<"a">>, email |-> None, message |-> None],
      [name |-> <<>>, email |-> Mail, message |-> None],
      [name |-> <<"a">>, email |-> <<"a","b">>, message |-> None] }

SubscriberPayloads == { [email |-> Mail], [email |-> None], [email |-> <<"@","b">>] }

Sessions == { <<"s","1">>, <<"s","2">> }

AskPayloads ==
    { [session_id |-> <<"s","1">>, message |-> <<"C","o","s","t","?">>],
      [session_id |-> <<"s","2">>, message |-> <<"o","k">>],
      [session_id |-> <<"s","1">>, message |-> None] }

LimitQueries ==
    { [given |-> FALSE, isInt |-> TRUE, n |-> 0],
      [given |-> TRUE, isInt |-> FALSE, n |-> 0] }
        \cup { [given |-> TRUE, isInt |-> TRUE, n |-> k] : k \in {0, 2, DefaultLimit + 1} }

Outcomes == {"ok", "fail"}
Orders == {"natural", "recent"}
Threads == 1..MaxThreads

ProbeError == <<"t","i","m","e","o","u","t">>

(* ------------------------------- state -------------------------------- *)

Idle == [busy |-> FALSE, payload |-> [session_id |-> None, message |-> None],
         written |-> <<>>]

NoResponse ==
    [seq |-> 0, ep |-> "none", valid |-> TRUE, status |-> 0, body |-> <<>>,
     calls |-> 0, written |-> <<>>, req |-> <<>>]

\* a store already holding k leads
PriorStore(k) ==
    [i \in 1..k |-> [kind |-> "lead", _id |-> [oid |-> i], doc |-> OldLead]]

Init ==
    /\ db \in {"None", "Up"}
    /\ store = <<>>
    /\ inflight = [t \in Threads |-> Idle]
    /\ last = NoResponse
    /\ nreq = 0
    /\ mixed = {}
    /\ msg = <<>>
    /\ reply = <<>>

(* --------------------------- endpoint layer --------------------------- *)

\* the response of a completed request, with what the request did to the store
Respond(ep, req, valid, status, body, calls, written) ==
    [seq |-> last.seq + 1, ep |-> ep, valid |-> valid, status |-> status,
     body |-> body, calls |-> calls, written |-> written, req |-> req]

\* A body or query value that fails the handler's typed parameter is answered
\* by the framework with 422 Unprocessable Entity; the handler, and with it
\* the try/except, is not entered.
Unprocessable(ep, req) ==
    Respond(ep, req, FALSE, 422, [detail |-> ValidationError], 0, <<>>)

\* raise HTTPException(status_code=500, detail=str(e))
ServerError(ep, req, e, calls, written) ==
    Respond(ep, req, TRUE, 500, [detail |-> e], calls, written)

Accept == nreq < MaxRequests /\ nreq' = nreq + 1

read_root ==
    /\ Accept
    /\ last' = Respond("read_root", <<>>, TRUE, 200,
                       [message |-> <<"SPixLabs API is running">>], 0, <<>>)
    /\ UNCHANGED <<db, store, inflight, mixed, msg, reply>>

hello ==
    /\ Accept
    /\ last' = Respond("hello", <<>>, TRUE, 200,
                       [message |-> <<"Hello from SPixLabs backend!">>], 0, <<>>)
    /\ UNCHANGED <<db, store, inflight, mixed, msg, reply>>

Flag(set) == IF set THEN <<"Set">> ELSE <<"Not Set">>

\* test_database without its inner try: a failing probe propagates
test_database_unguarded(url, name, probe) ==
    /\ Accept
    /\ last' = IF db # "None" /\ probe # "ok"
               THEN ServerError("test_database", [probe |-> probe], ProbeError, 0, <<>>)
               ELSE Respond("test_database", [probe |-> probe], TRUE, 200,
                            [backend |-> <<"Running">>,
                             database |-> IF db # "None" THEN <<"Connected & Working">>
                                          ELSE <<"Available but not initialized">>,
                             database_url |-> Flag(url),
                             database_name |-> Flag(name),
                             connection_status |-> IF db # "None" THEN <<"Connected">>
                                                   ELSE <<"Not Connected">>,
                             collections |-> IF db # "None"
                                             THEN Take(ListCollectionNames(store),
                                                       MaxCollectionsShown)
                                             ELSE <<>>], 0, <<>>)
    /\ UNCHANGED <<db, store, inflight, mixed, msg, reply>>

test_database(url, name, probe) ==
    /\ Accept
    /\ LET database ==
               IF db # "None"
               THEN IF probe = "ok" THEN <<"Connected & Working">>
                    ELSE <<"Connected but Error: ">> \o Take(ProbeError, ErrTextShown)
               ELSE <<"Available but not initialized">>
           collections ==
               IF db # "None" /\ probe = "ok"
               THEN Take(ListCollectionNames(store), MaxCollectionsShown)
               ELSE <<>>
           response ==
               [backend |-> <<"Running">>,
                database |-> database,
                database_url |-> Flag(url),
                database_name |-> Flag(name),
                connection_status |-> IF db # "None" THEN <<"Connected">>
                                      ELSE <<"Not Connected">>,
                collections |-> collections]
       IN last' = Respond("test_database", [probe |-> probe], TRUE, 200, response,
                          0, <<>>)
    /\ UNCHANGED <<db, store, inflight, mixed, msg, reply>>

\* create_lead swallowing the store's exception
create_lead_swallow(lead, out) ==
    /\ Accept
    /\ IF ~LeadValid(lead)
       THEN last' = Unprocessable("create_lead", lead) /\ store' = store
       ELSE LET r == CreateDocument("lead", lead, store, out) IN
            /\ store' = r.store
            /\ last' = Respond("create_lead", lead, TRUE, 200,
                               [status |-> <<"ok">>, id |-> r.id], 1,
                               IF r.ok THEN <<Len(r.store)>> ELSE <<>>)
    /\ UNCHANGED <<db, inflight, mixed, msg, reply>>

\* create_lead taking an untyped body: the handler runs on any payload
create_lead_untyped(lead, out) ==
    /\ Accept
    /\ LET r == CreateDocument("lead", lead, store, out) IN
       /\ store' = r.store
       /\ last' = IF r.ok
                  THEN Respond("create_lead", lead, LeadValid(lead), 200,
                               [status |-> <<"ok">>, id |-> r.id], 1,
                               <<Len(r.store)>>)
                  ELSE Respond("create_lead", lead, LeadValid(lead), 500,
                               [detail |-> r.err], 1, <<>>)
    /\ UNCHANGED <<db, inflight, mixed, msg, reply>>

\* create_lead inserting into a collection list_leads does not read
create_lead_wrong_kind(lead, out) ==
    /\ Accept
    /\ IF ~LeadValid(lead)
       THEN last' = Unprocessable("create_lead", lead) /\ store' = store
       ELSE LET r == CreateDocument("leads", lead, store, out) IN
            /\ store' = r.store
            /\ last' = IF r.ok
                       THEN Respond("create_lead", lead, TRUE, 200,
                                    [status |-> <<"ok">>, id |-> r.id], 1,
                                    <<Len(r.store)>>)
                       ELSE ServerError("create_lead", lead, r.err, 1, <<>>)
    /\ UNCHANGED <<db, inflight, mixed, msg, reply>>

create_lead(lead, out) ==
    /\ Accept
    /\ IF ~LeadValid(lead)
       THEN last' = Unprocessable("create_lead", lead) /\ store' = store
       ELSE LET r == CreateDocument("lead", lead, store, out) IN
            /\ store' = r.store
            /\ last' = IF r.ok
                       THEN Respond("create_lead", lead, TRUE, 200,
                                    [status |-> <<"ok">>, id |-> r.id], 1,
                                    <<Len(r.store)>>)
                       ELSE ServerError("create_lead", lead, r.err, 1, <<>>)
    /\ UNCHANGED <<db, inflight, mixed, msg, reply>>

\* list_leads whose in-place _id rewrite reaches the stored documents
list_leads_writethrough(limit, out, order) ==
    /\ Accept
    /\ IF ~LimitValid(limit)
       THEN last' = Unprocessable("list_leads", limit) /\ store' = store
       ELSE LET r == GetDocuments("lead", LimitValue(limit), store, out, order)
                docs == [i \in 1..Len(r.docs) |->
                            [r.docs[i] EXCEPT !._id = StrOid(@)]]
            IN /\ last' = IF r.ok
                          THEN Respond("list_leads", limit, TRUE, 200,
                                       [items |-> docs], 1, <<>>)
                          ELSE ServerError("list_leads", limit, r.err, 1, <<>>)
               /\ store' = [i \in 1..Len(store) |->
                              IF \E j \in 1..Len(r.docs) : r.docs[j] = store[i]
                              THEN [store[i] EXCEPT !._id = [oid |-> 0]]
                              ELSE store[i]]
    /\ UNCHANGED <<db, inflight, mixed, msg, reply>>

\* list_leads that does not pass the query's limit on
list_leads_ignores_limit(limit, out, order) ==
    /\ Accept
    /\ IF ~LimitValid(limit)
       THEN last' = Unprocessable("list_leads", limit)
       ELSE LET r == GetDocuments("lead", DefaultLimit, store, out, order)
                docs == [i \in 1..Len(r.docs) |->
                            [r.docs[i] EXCEPT !._id = StrOid(@)]]
            IN last' = IF r.ok
                       THEN Respond("list_leads", limit, TRUE, 200,
                                    [items |-> docs], 1, <<>>)
                       ELSE ServerError("list_leads", limit, r.err, 1, <<>>)
    /\ UNCHANGED <<db, store, inflight, mixed, msg, reply>>

list_leads(limit, out, order) ==
    /\ Accept
    /\ IF ~LimitValid(limit)
       THEN last' = Unprocessable("list_leads", limit)
       ELSE LET r == GetDocuments("lead", LimitValue(limit), store, out, order)
                docs == [i \in 1..Len(r.docs) |->
                            [r.docs[i] EXCEPT !._id = StrOid(@)]]
            IN last' = IF r.ok
                       THEN Respond("list_leads", limit, TRUE, 200,
                                    [items |-> docs], 1, <<>>)
                       ELSE ServerError("list_leads", limit, r.err, 1, <<>>)
    /\ UNCHANGED <<db, store, inflight, mixed, msg, reply>>

\* subscribe without its try/except: the framework's bare 500
subscribe_no_detail(sub, out) ==
    /\ Accept
    /\ IF ~SubscriberValid(sub)
       THEN last' = Unprocessable("subscribe", sub) /\ store' = store
       ELSE LET r == CreateDocument("subscriber", sub, store, out) IN
            /\ store' = r.store
            /\ last' = IF r.ok
                       THEN Respond("subscribe", sub, TRUE, 200,
                                    [status |-> <<"ok">>, id |-> r.id], 1,
                                    <<Len(r.store)>>)
                       ELSE ServerError("subscribe", sub, <<"Internal Server Error">>,
                                        1, <<>>)
    /\ UNCHANGED <<db, inflight, mixed, msg, reply>>

subscribe(sub, out) ==
    /\ Accept
    /\ IF ~SubscriberValid(sub)
       THEN last' = Unprocessable("subscribe", sub) /\ store' = store
       ELSE LET r == CreateDocument("subscriber", sub, store, out) IN
            /\ store' = r.store
            /\ last' = IF r.ok
                       THEN Respond("subscribe", sub, TRUE, 200,
                                    [status |-> <<"ok">>, id |-> r.id], 1,
                                    <<Len(r.store)>>)
                       ELSE ServerError("subscribe", sub, r.err, 1, <<>>)
    /\ UNCHANGED <<db, inflight, mixed, msg, reply>>

\* another worker is between its two inserts for the same session
Overlaps(t, session_id) ==
    \E u \in Threads \ {t} :
        inflight[u].busy /\ inflight[u].payload.session_id = session_id

\* ask_spix storing the reply before the user message
ask_spix_user_reply_first(t, payload, out) ==
    /\ ~inflight[t].busy
    /\ Accept
    /\ IF ~AskPayloadValid(payload)
       THEN /\ last' = Unprocessable("ask_spix", payload)
            /\ UNCHANGED <<store, inflight, mixed>>
       ELSE LET m == ChatMessage(payload.session_id, "assistant",
                                 Answer(payload.message))
                r == CreateDocument("chatmessage", m, store, out)
            IN IF r.ok
               THEN /\ store' = r.store
                    /\ inflight' = [inflight EXCEPT ![t] =
                           [busy |-> TRUE, payload |-> payload,
                            written |-> <<Len(r.store)>>]]
                    /\ mixed' = IF Overlaps(t, payload.session_id)
                                THEN mixed \cup {payload.session_id} ELSE mixed
                    /\ last' = last
               ELSE /\ last' = ServerError("ask_spix", payload, r.err, 1, <<>>)
                    /\ UNCHANGED <<store, inflight, mixed>>
    /\ UNCHANGED <<db, msg, reply>>

\* ask_spix up to and including its first store call.  The handler is a plain
\* def, which the server runs on worker threads: other requests may run between
\* its two store calls.
ask_spix_user(t, payload, out) ==
    /\ ~inflight[t].busy
    /\ Accept
    /\ IF ~AskPayloadValid(payload)
       THEN /\ last' = Unprocessable("ask_spix", payload)
            /\ UNCHANGED <<store, inflight, mixed>>
       ELSE LET m == ChatMessage(payload.session_id, "user", payload.message)
                r == IF ChatMessageValid(m)
                     THEN CreateDocument("chatmessage", m, store, out)
                     ELSE [ok |-> FALSE, err |-> ValidationError, store |-> store,
                           id |-> <<>>]
            IN IF r.ok
               THEN /\ store' = r.store
                    /\ inflight' = [inflight EXCEPT ![t] =
                           [busy |-> TRUE, payload |-> payload,
                            written |-> <<Len(r.store)>>]]
                    /\ mixed' = IF Overlaps(t, payload.session_id)
                                THEN mixed \cup {payload.session_id} ELSE mixed
                    /\ last' = last
               ELSE /\ last' = ServerError("ask_spix", payload, r.err, 1, <<>>)
                    /\ UNCHANGED <<store, inflight, mixed>>
    /\ UNCHANGED <<db, msg, reply>>

\* ask_spix storing its reply under the role "user"
ask_spix_assistant_as_user(t, out) ==
    /\ inflight[t].busy
    /\ LET payload == inflight[t].payload
           answer == Answer(payload.message)
           m == ChatMessage(payload.session_id, "user", answer)
           r == CreateDocument("chatmessage", m, store, out)
       IN /\ store' = r.store
          /\ last' = IF r.ok
                     THEN Respond("ask_spix", payload, TRUE, 200, [reply |-> answer],
                                  2, Append(inflight[t].written, Len(r.store)))
                     ELSE ServerError("ask_spix", payload, r.err, 2,
                                      inflight[t].written)
          /\ mixed' = IF r.ok THEN mixed ELSE mixed \cup {payload.session_id}
    /\ inflight' = [inflight EXCEPT ![t] = Idle]
    /\ UNCHANGED <<db, nreq, msg, reply>>

\* ask_spix from the heuristic to the response
ask_spix_assistant(t, out) ==
    /\ inflight[t].busy
    /\ LET payload == inflight[t].payload
           answer == Answer(payload.message)
           m == ChatMessage(payload.session_id, "assistant", answer)
           r == IF ChatMessageValid(m)
                THEN CreateDocument("chatmessage", m, store, out)
                ELSE [ok |-> FALSE, err |-> ValidationError, store |-> store,
                      id |-> <<>>]
       IN /\ store' = r.store
          /\ last' = IF r.ok
                     THEN Respond("ask_spix", payload, TRUE, 200, [reply |-> answer],
                                  2, Append(inflight[t].written, Len(r.store)))
                     ELSE ServerError("ask_spix", payload, r.err, 2,
                                      inflight[t].written)
          /\ mixed' = IF r.ok THEN mixed ELSE mixed \cup {payload.session_id}
    /\ inflight' = [inflight EXCEPT ![t] = Idle]
    /\ UNCHANGED <<db, nreq, msg, reply>>

Next ==
    \/ read_root
    \/ hello
    \/ \E url \in BOOLEAN, name \in BOOLEAN, probe \in Outcomes :
          test_database(url, name, probe)
    \/ \E lead \in LeadPayloads, out \in Outcomes : create_lead(lead, out)
    \/ \E limit \in LimitQueries, out \in Outcomes, order \in Orders :
          list_leads(limit, out, order)
    \/ \E sub \in SubscriberPayloads, out \in Outcomes : subscribe(sub, out)
    \/ \E t \in Threads, payload \in AskPayloads, out \in Outcomes :
          ask_spix_user(t, payload, out)
    \/ \E t \in Threads, out \in Outcomes : ask_spix_assistant(t, out)

Spec == Init /\ [][Next]_vars

(* ---------------- leads against a store that already holds leads ------ *)

PriorCounts == {k \in 0..MaxPrior : k < 4 \/ k >= DefaultLimit - 1}

InitLeads ==
    /\ db = "Up"
    /\ store \in {PriorStore(k) : k \in PriorCounts}
    /\ inflight = [t \in Threads |-> Idle]
    /\ last = NoResponse
    /\ nreq = 0
    /\ mixed = {}
    /\ msg = <<>>
    /\ reply = <<>>

NextLeads ==
    \/ \E lead \in LeadPayloads, out \in Outcomes : create_lead(lead, out)
    \/ \E limit \in LimitQueries, out \in Outcomes, order \in Orders :
          list_leads(limit, out, order)
    \/ \E sub \in SubscriberPayloads, out \in Outcomes : subscribe(sub, out)

SpecLeads == InitLeads /\ [][NextLeads]_vars

(* ---------------------- the reply heuristic alone --------------------- *)

Tokens ==
    << <<"p","r","i","c","e">>, <<"P","R","I","C","I","N","G">>, <<"C","o","s","t">>,
       <<"s","e","r","v","i","c","e">>, <<"O","f","f","e","r">>,
       <<"s","o","l","u","t","i","o","n","s">>,
       <<"h","e","l","l","o">>, <<"H","I">>, <<"h","e","y">>,
       <<"t","h","i","s">>, <<"p","r","i">>, <<"c","e">>, <<"x">>, <<" ">> >>

RECURSIVE Concat(_)
Concat(ts) == IF ts = <<>> THEN <<>> ELSE Tokens[ts[1]] \o Concat(Tail(ts))

Messages ==
    {Concat(ts) : ts \in UNION {[1..n -> 1..Len(Tokens)] : n \in 0..MaxTokens}}

InitReply ==
    /\ db = "Up"
    /\ store = <<>>
    /\ inflight = [t \in Threads |-> Idle]
    /\ last = NoResponse
    /\ nreq = 0
    /\ mixed = {}
    /\ msg \in Messages
    /\ reply = <<>>

\* lines 104-112 of ask_spix applied to msg
heuristic ==
    /\ reply = <<>>
    /\ reply' = Answer(msg)
    /\ UNCHANGED <<db, store, inflight, last, nreq, mixed, msg>>

SpecReply == InitReply /\ [][heuristic]_vars

(* ============================== properties =========================== *)

WriteEndpoints == {"create_lead", "subscribe", "ask_spix"}
ReadEndpoints == {"read_root", "hello", "test_database", "list_leads"}
GuardedEndpoints == {"create_lead", "list_leads", "subscribe", "ask_spix"}

\* how many documents a successful request of the endpoint stores
Expected(ep) == IF ep = "ask_spix" THEN 2 ELSE 1

Leads(st) == OfKind("lead", st)

\* the roles of a session's chat messages, in insertion order
Roles(session_id) ==
    LET chats == SelectSeq(store, LAMBDA d :
                     d.kind = "chatmessage" /\ d.doc.session_id = session_id)
    IN [i \in 1..Len(chats) |-> chats[i].doc.role]

Alternating(roles) ==
    \A i \in 1..Len(roles) : roles[i] = IF i % 2 = 1 THEN "user" ELSE "assistant"

\* no reply before its question: every prefix has at least as many user records
UserLeads(roles) ==
    \A n \in 1..Len(roles) :
        Cardinality({i \in 1..n : roles[i] = "assistant"})
            <= Cardinality({i \in 1..n : roles[i] = "user"})

(* C1 as stated: a write request either persists every record and succeeds, *)
(* or persists nothing and returns an error.                                *)
C1_NoPartialSuccess ==
    last.ep \in WriteEndpoints =>
        \/ last.status = 200 /\ Len(last.written) = Expected(last.ep)
        \/ last.status # 200 /\ last.written = <<>>

(* C1 amended: /api/leads and /api/subscribe end all-or-nothing; /api/ask   *)
(* has a third outcome, an error with the request's user message stored,    *)
(* when the assistant insert fails after the user insert succeeded.         *)
C1_OutcomesOfWrites ==
    last.ep \in WriteEndpoints =>
        \/ /\ last.status = 200
           /\ Len(last.written) = Expected(last.ep)
           /\ \A i \in 1..Len(last.written) : last.written[i] \in 1..Len(store)
        \/ last.status # 200 /\ last.written = <<>>
        \/ /\ last.ep = "ask_spix"
           /\ last.status = 500
           /\ last.calls = 2
           /\ Len(last.written) = 1
           /\ last.written[1] \in 1..Len(store)
           /\ store[last.written[1]].doc =
                  ChatMessage(last.req.session_id, "user", last.req.message)

C1_Witness ==
    last.ep = "ask_spix" /\ last.status = 500 /\ Len(last.written) = 1

\* the two documents a successful ask stored: user then assistant, one session
TwoChatRecords(l) ==
    /\ Len(l.written) = 2
    /\ l.written[1] < l.written[2]
    /\ l.written[2] <= Len(store)
    /\ store[l.written[1]].kind = "chatmessage"
    /\ store[l.written[2]].kind = "chatmessage"
    /\ store[l.written[1]].doc =
           ChatMessage(l.req.session_id, "user", l.req.message)
    /\ store[l.written[2]].doc.session_id = l.req.session_id
    /\ store[l.written[2]].doc.role = "assistant"

(* C2 as stated: each well-formed call to /api/ask stores exactly two       *)
(* ChatMessage records, user then assistant, under the request's session.   *)
C2_EveryAskStoresTwo ==
    (last.ep = "ask_spix" /\ last.valid) => TwoChatRecords(last)

(* C2 amended: each call to /api/ask that returns its reply has stored      *)
(* exactly two ChatMessage records, user then assistant, under the          *)
(* request's session; a call that fails has stored at most its user record. *)
C2_SuccessfulAskStoresTwo ==
    last.ep = "ask_spix" =>
        /\ last.status = 200 =>
              /\ TwoChatRecords(last)
              /\ store[last.written[2]].doc.content = last.body.reply
        /\ last.status # 200 =>
              /\ Len(last.written) <= 1
              /\ \A i \in 1..Len(last.written) :
                    store[last.written[i]].doc =
                        ChatMessage(last.req.session_id, "user", last.req.message)

C2_Witness ==
    /\ last.ep = "ask_spix"
    /\ last.status = 200
    /\ last.written[2] > last.written[1] + 1

(* C3 as stated: each session's records, in insertion order, alternate      *)
(* user, assistant, user, assistant, ...                                    *)
C3_TranscriptAlternates == \A s \in Sessions : Alternating(Roles(s))

(* C3 amended: a session's records alternate user, assistant, ... as long   *)
(* as no two of its asks were between their inserts at once and none lost   *)
(* its assistant insert; in every session each prefix of the transcript     *)
(* holds at least as many user records as assistant records.                *)
C3_AlternatesWhenSerial ==
    \A s \in Sessions :
        /\ s \notin mixed => Alternating(Roles(s))
        /\ UserLeads(Roles(s))

C3_Witness ==
    \E s \in Sessions, t \in Sessions :
        /\ s \notin mixed
        /\ Len(Roles(s)) >= 3
        /\ t # s
        /\ Len(Roles(t)) >= 1

(* C4: a request whose payload is invalid completes without a store call    *)
(* and leaves the store as it was.                                          *)
C4_InvalidPayloadLeavesStore ==
    [][ (last'.seq # last.seq /\ ~last'.valid) =>
            /\ store' = store
            /\ last'.calls = 0
            /\ last'.written = <<>>
            /\ last'.status # 200 ]_vars

C4_Witness ==
    /\ last.ep = "create_lead"
    /\ ~last.valid
    /\ last.req.name = None
    /\ Len(store) > 0

(* C5 as stated: every failure of the guarded endpoints is answered 500.    *)
C5_EveryFailureIs500 ==
    (last.ep \in GuardedEndpoints /\ last.status # 200) => last.status = 500

(* C5 amended: the guarded endpoints answer a store error with 500 and the  *)
(* exception's text, and a payload that fails validation with 422 from the  *)
(* framework; no failure is answered with a success or any other code.      *)
C5_FailureResponses ==
    last.ep \in GuardedEndpoints =>
        /\ last.status \in {200, 422, 500}
        /\ last.status = 422 <=> ~last.valid
        /\ last.status = 500 =>
              last.body.detail \in {StoreUnavailable, StoreWriteError, StoreReadError}
        /\ (last.valid /\ db = "None") =>
              last.status = 500 /\ last.body.detail = StoreUnavailable
        /\ last.status = 200 => db = "Up"

C5_Witness ==
    /\ last.ep = "list_leads"
    /\ last.status = 500
    /\ last.body.detail = StoreReadError

(* C6: GET /test always answers 200; with the handle absent or the probe    *)
(* raising, collections is empty and database is not "Connected & Working". *)
C6_ProbeNeverFails ==
    last.ep = "test_database" =>
        /\ last.status = 200
        /\ (db = "None" \/ last.req.probe = "fail") =>
              /\ last.body.collections = <<>>
              /\ last.body.database # <<"Connected & Working">>

C6_Witness ==
    /\ last.ep = "test_database"
    /\ db = "Up"
    /\ last.req.probe = "fail"
    /\ Len(store) > 0

(* C7: every step leaves each stored document in place and unchanged, only  *)
(* appending; a step that completes a read endpoint leaves the store as is. *)
C7_AppendOnly ==
    [][ /\ Len(store') >= Len(store)
        /\ SubSeq(store', 1, Len(store)) = store
        /\ (last'.seq # last.seq /\ last'.ep \in ReadEndpoints) => store' = store
      ]_vars

C7_Witness ==
    /\ last.ep = "list_leads"
    /\ last.status = 200
    /\ Len(last.body.items) >= 1
    /\ Len(store) >= 2

\* a successful create_lead answers ok with a non-empty id for the stored lead
CreatedLead(l) ==
    /\ l.body.status = <<"ok">>
    /\ l.body.id # <<>>
    /\ Len(l.written) = 1
    /\ store[l.written[1]].kind = "lead"
    /\ store[l.written[1]].doc = l.req
    /\ l.body.id = StrOid(store[l.written[1]]._id)

\* every stored lead has an item with its fields
ItemsCoverLeads(l) ==
    \A i \in 1..Len(store) :
        store[i].kind = "lead" =>
            \E j \in 1..Len(l.body.items) : l.body.items[j].doc = store[i].doc

(* C8 as stated: a successful create_lead answers ok with a non-empty id,   *)
(* and list_leads with the default limit then includes the lead, however    *)
(* many leads are stored.                                                   *)
C8_ListIncludesCreated ==
    /\ (last.ep = "create_lead" /\ last.status = 200) => CreatedLead(last)
    /\ (last.ep = "list_leads" /\ last.status = 200 /\ ~last.req.given) =>
           ItemsCoverLeads(last)

(* C8 amended: a successful create_lead answers ok with a non-empty id, and *)
(* list_leads with the default limit then includes the lead provided no     *)
(* more than 50 leads are stored.                                           *)
C8_ListIncludesCreatedUpToLimit ==
    /\ (last.ep = "create_lead" /\ last.status = 200) => CreatedLead(last)
    /\ (/\ last.ep = "list_leads" /\ last.status = 200 /\ ~last.req.given
        /\ Len(Leads(store)) <= DefaultLimit) =>
           ItemsCoverLeads(last)

C8_Witness ==
    /\ last.ep = "list_leads"
    /\ last.status = 200
    /\ ~last.req.given
    /\ Len(Leads(store)) = DefaultLimit
    /\ store[Len(store)].kind = "lead"
    /\ store[Len(store)].doc # OldLead

\* the message holds the keyword at some position, letter case aside
Mentions(message, keyword) ==
    \E i \in 0..(Len(message) - Len(keyword)) :
        \A j \in 1..Len(keyword) : LowerChar(message[i + j]) = keyword[j]

MentionsAny(message, keywords) ==
    \E k \in 1..Len(keywords) : Mentions(message, keywords[k])

UpperChar(c) ==
    IF \E u \in {"A","B","C","D","E","F","G","H","I","J","K","L","M","N","O","P",
                 "Q","R","S","T","U","V","W","X","Y","Z"} : LowerChar(u) = c
    THEN CHOOSE u \in {"A","B","C","D","E","F","G","H","I","J","K","L","M","N","O",
                       "P","Q","R","S","T","U","V","W","X","Y","Z"} : LowerChar(u) = c
    ELSE c

\* the message in upper case, in lower case, and with each letter's case swapped
CaseVariants(message) ==
    { [i \in 1..Len(message) |-> UpperChar(LowerChar(message[i]))],
      [i \in 1..Len(message) |-> LowerChar(message[i])],
      [i \in 1..Len(message) |->
          IF LowerChar(message[i]) = message[i] THEN UpperChar(message[i])
          ELSE LowerChar(message[i])] }

(* C9: the reply is one of the four fixed strings, chosen by the first      *)
(* keyword set the message mentions in the order price > service > greeting *)
(* > default, and it is the same for messages that differ only in case.     *)
C9_ReplyByPriority ==
    reply # <<>> =>
        /\ reply \in {PricingAnswer, ServicesAnswer, GreetingAnswer, DefaultAnswer}
        /\ MentionsAny(msg, PriceKeywords) => reply = PricingAnswer
        /\ (~MentionsAny(msg, PriceKeywords) /\ MentionsAny(msg, ServiceKeywords))
              => reply = ServicesAnswer
        /\ (/\ ~MentionsAny(msg, PriceKeywords)
            /\ ~MentionsAny(msg, ServiceKeywords)
            /\ MentionsAny(msg, GreetingKeywords)) => reply = GreetingAnswer
        /\ (/\ ~MentionsAny(msg, PriceKeywords)
            /\ ~MentionsAny(msg, ServiceKeywords)
            /\ ~MentionsAny(msg, GreetingKeywords)) => reply = DefaultAnswer
        /\ \A m \in CaseVariants(msg) : Answer(m) = reply

C9_Witness ==
    /\ reply = PricingAnswer
    /\ MentionsAny(msg, GreetingKeywords)
    /\ ~Contains(PriceKeywords[2], msg)
    /\ Mentions(msg, PriceKeywords[2])

(* C10: a successful GET /api/leads returns exactly min(limit, stored       *)
(* leads) items, with limit 50 when none is given; every item is a stored   *)
(* lead, its identifier the string form of the stored one.                  *)
C10_ListReturnsMinLimit ==
    (last.ep = "list_leads" /\ last.status = 200) =>
        LET items == last.body.items
            N == IF last.req.given THEN last.req.n ELSE 50
        IN /\ Len(items) = Min(N, Len(Leads(store)))
           /\ \A j \in 1..Len(items) :
                 /\ items[j].kind = "lead"
                 /\ \E i \in 1..Len(store) :
                       /\ store[i].kind = "lead"
                       /\ items[j].doc = store[i].doc
                       /\ items[j]._id = StrOid(store[i]._id)
           /\ \A j, k \in 1..Len(items) : j # k => items[j]._id # items[k]._id

C10_Witness ==
    /\ last.ep = "list_leads"
    /\ last.status = 200
    /\ last.req.given
    /\ last.req.n = 2
    /\ Len(Leads(store)) = 5
    /\ Len(last.body.items) = 2

====
